---- MODULE Spec2Model ----
(***************************************************************************)
(* Model of src/main.cpp: the timing harness timeit, the thread-per-       *)
(* partition engine parallel_all_of and the benchmark driver               *)
(* demo_parallel_custom with its speedup table and best-K selection.       *)
(*                                                                         *)
(* The calling thread of parallel_all_of and each worker thread are        *)
(* separate processes; a worker's store into the vector<bool> of partial   *)
(* results is the load and the store of the packed word it performs.       *)
(***************************************************************************)
EXTENDS Integers, Sequences, FiniteSets, TLC

\* ------------------------------------------------------------------ bounds
MaxN == 3          \* longest input sequence
MaxK == 2          \* largest worker count in a benchmark series
MaxSeries == 2     \* longest benchmark series (entries of K_values)
MaxRepeat == 2     \* largest repeat count handed to timeit
MaxElapsed == 1    \* largest clock difference, in clock ticks
MaxDemoK == 4      \* largest worker count of the demo sweep that is run

\* element values and thresholds the inputs are drawn from
Values == {1, 3}
Thresholds == {4}
KSet == 0..MaxK

VARIABLES
    \* inputs of the run
    data, threshold, K_values, repeatArg,
    \* demo_parallel_custom
    dpc, ki, times, speedups, best_K, retlog,
    \* timeit
    tpc, repeat, tlog, ms,
    \* parallel_all_of, calling thread
    pc, K, n, block_size, i, j, results, nthreads, ret,
    \* parallel_all_of, worker threads (indexed by partition 0..K-1)
    wpc, wstart, wend, wit, wval, wword, evald,
    \* per slot of results, the workers whose store wrote its storage
    writers

inputs == <<data, threshold, K_values, repeatArg>>
demoVars == <<dpc, ki, times, speedups, best_K, retlog>>
timeitVars == <<tpc, repeat, tlog, ms>>
callerVars == <<pc, K, n, block_size, i, j, results, nthreads, ret>>
workerVars == <<wpc, wstart, wend, wit, wval, wword, evald, writers>>
vars == <<inputs, demoVars, timeitVars, callerVars, workerVars>>

\* ----------------------------------------------------------------- helpers
SeqsUpTo(S, lo, hi) == UNION {[1..m -> S] : m \in lo..hi}

\* the strictly increasing sequences among them (a sweep of worker counts)
Increasing(S, lo, hi) ==
    {q \in SeqsUpTo(S, lo, hi) : \A a, b \in 1..Len(q) : a < b => q[a] < q[b]}

NoFun == [x \in {} |-> 0]

RECURSIVE GCD(_, _)
GCD(a, b) == IF b = 0 THEN a ELSE GCD(b, a % b)

\* ------------------------------------------------------- the predicate
\* std::sqrt(x * x + 10) < threshold, on int x and int threshold: the
\* square root of a positive integer v is below t exactly when t > 0 and
\* v < t * t (the values here are far below 2^53, where sqrt is exact
\* enough for the comparison).
PredNoSqrt(x, t) == t > 0 /\ x * x + 10 < t

Pred(x, t) == t > 0 /\ x * x + 10 < t * t

\* the sequential all-of over the whole sequence
SeqAllOf(d, t) == \A p \in 1..Len(d) : Pred(d[p], t)

\* ------------------------------------------------------- the partitioner
BlockSizeCeil(len, k) == (len + k - 1) \div k

\* block_size = n / K on size_t: the quotient rounded down
BlockSize(len, k) == len \div k

RangeStartOneBased(w, bs) == w * bs + 1

RangeStart(w, bs) == w * bs

RangeEndNoRemainder(w, k, len, bs) == (w + 1) * bs

RangeEnd(w, k, len, bs) == IF w = k - 1 THEN len ELSE (w + 1) * bs

\* ------------------------------------------------- vector<bool> storage
\* std::vector<bool> packs its elements, 64 to a storage word
WordBits == 64

WordOf(s) == s \div WordBits

SameWord(a, b) == WordOf(a) = WordOf(b)

\* the word a reference to slot w designates, as the slots it holds
LoadWord(res, w) == [s \in {x \in DOMAIN res : SameWord(x, w)} |-> res[s]]

\* the word with bit w set or cleared, written back whole
StoreWord(res, w, word, b) ==
    [s \in DOMAIN res |->
        IF SameWord(s, w) THEN (IF s = w THEN b ELSE word[s]) ELSE res[s]]

\* the slots whose storage the write-back of slot w's word writes
WrittenSlots(res, w) == {s \in DOMAIN res : SameWord(s, w)}

\* the final fold: std::all_of over the partial results
FoldAll(res) == \A s \in DOMAIN res : res[s]

\* ------------------------------------------------------------------- Init
Init ==
    /\ data \in SeqsUpTo(Values, 0, MaxN)
    /\ threshold \in Thresholds
    /\ K_values \in Increasing(KSet, 1, MaxSeries)
    /\ repeatArg \in 1..MaxRepeat
    /\ dpc = "loop" /\ ki = 1 /\ times = <<>> /\ speedups = <<>>
    /\ best_K = 0 /\ retlog = <<>>
    /\ tpc = "idle" /\ repeat = 0 /\ tlog = <<>> /\ ms = 0
    /\ pc = "idle" /\ K = 0 /\ n = 0 /\ block_size = 0 /\ i = 0 /\ j = 0
    /\ results = NoFun /\ nthreads = 0 /\ ret = TRUE
    /\ wpc = NoFun /\ wstart = NoFun /\ wend = NoFun /\ wit = NoFun
    /\ wval = NoFun /\ wword = NoFun /\ evald = NoFun /\ writers = NoFun

\* ------------------------------------------------------------ timeit
\* while (repeat--): the test reads the value before the decrement
LoopTestPreDecrement(r) == r - 1 # 0

LoopTest(r) == r # 0

\* the locals of a fresh call of parallel_all_of
EnterCall ==
    /\ pc' = "entry"
    /\ n' = 0 /\ block_size' = 0 /\ i' = 0 /\ j' = 0
    /\ results' = NoFun /\ nthreads' = 0 /\ ret' = TRUE
    /\ wpc' = NoFun /\ wstart' = NoFun /\ wend' = NoFun /\ wit' = NoFun
    /\ wval' = NoFun /\ wword' = NoFun /\ evald' = NoFun /\ writers' = NoFun

\* auto start = high_resolution_clock::now();
T_Start ==
    /\ tpc = "start"
    /\ tlog' = <<"start">>
    /\ tpc' = "loop"
    /\ UNCHANGED <<inputs, demoVars, repeat, ms, callerVars, workerVars>>

\* while (repeat--) f();   the test succeeds: f is called
T_LoopCall ==
    /\ tpc = "loop"
    /\ LoopTest(repeat)
    /\ repeat' = repeat - 1
    /\ tlog' = Append(tlog, "f")
    /\ tpc' = "call"
    /\ EnterCall
    /\ UNCHANGED <<inputs, demoVars, ms, K>>

\* while (repeat--) f();   the test fails: the loop is left
T_LoopExit ==
    /\ tpc = "loop"
    /\ ~LoopTest(repeat)
    /\ repeat' = repeat - 1
    /\ tpc' = "end"
    /\ UNCHANGED <<inputs, demoVars, tlog, ms, callerVars, workerVars>>

\* auto end = now(); ms = duration_cast<...>(end - start).count();
\* print; return ms.  high_resolution_clock is the system clock: the
\* difference of two readings is an input, any tick count from 0 up.
\* ms is kept as that tick count (the cast scales it by a constant).
T_End ==
    /\ tpc = "end"
    /\ \E d \in 0..MaxElapsed : ms' = d
    /\ tlog' = Append(tlog, "end")
    /\ tpc' = "ret"
    /\ UNCHANGED <<inputs, demoVars, repeat, callerVars, workerVars>>

\* ------------------------------------------------- parallel_all_of
\* if (K <= 0 || n == 0) return true;
FastPathOnlyK(k, len) == k <= 0

FastPath(k, len) == k <= 0 \/ len = 0

\* the call returns r to the lambda timeit is running (result is dropped
\* by the lambda; retlog keeps the last value returned per series entry)
Return(r) ==
    /\ pc' = "returned"
    /\ ret' = r
    /\ tpc' = "loop"
    /\ retlog' = (ki :> r) @@ retlog

P_FastPath ==
    /\ pc = "entry"
    /\ FastPath(K, Len(data))
    /\ n' = Len(data)
    /\ Return(TRUE)
    /\ UNCHANGED <<inputs, dpc, ki, times, speedups, best_K, repeat, tlog, ms,
                   K, block_size, i, j, results, nthreads, workerVars>>

\* block_size = n / K; vector<bool> results(K, true); vector<thread> threads;
P_Setup ==
    /\ pc = "entry"
    /\ ~FastPath(K, Len(data))
    /\ n' = Len(data)
    /\ block_size' = BlockSize(Len(data), K)
    /\ results' = [s \in 0..(K - 1) |-> TRUE]
    /\ nthreads' = 0
    /\ i' = 0
    /\ wpc' = [w \in 0..(K - 1) |-> "none"]
    /\ wstart' = [w \in 0..(K - 1) |-> 0]
    /\ wend' = [w \in 0..(K - 1) |-> 0]
    /\ wit' = [w \in 0..(K - 1) |-> 0]
    /\ wval' = [w \in 0..(K - 1) |-> TRUE]
    /\ wword' = [w \in 0..(K - 1) |-> NoFun]
    /\ evald' = [w \in 0..(K - 1) |-> <<>>]
    /\ writers' = [s \in 0..(K - 1) |-> {}]
    /\ pc' = "spawn"
    /\ UNCHANGED <<inputs, demoVars, timeitVars, K, j, ret>>

\* for (int i = 0; i < K; ++i): the test after ++i
SpawnLoopStopsEarly(next, k) == next < k - 1

SpawnLoopContinues(next, k) == next < k

\* one iteration of the spawn loop: the range of partition i and
\* threads.emplace_back(lambda capturing i, start, end by value)
P_Spawn ==
    /\ pc = "spawn"
    /\ LET start == RangeStart(i, block_size)
           end == RangeEnd(i, K, n, block_size)
       IN /\ wstart' = [wstart EXCEPT ![i] = start]
          /\ wend' = [wend EXCEPT ![i] = end]
          /\ wit' = [wit EXCEPT ![i] = start]
    /\ wpc' = [wpc EXCEPT ![i] = "scan"]
    /\ nthreads' = nthreads + 1
    /\ i' = i + 1
    /\ pc' = IF SpawnLoopContinues(i + 1, K) THEN "spawn" ELSE "join"
    /\ j' = 0
    /\ UNCHANGED <<inputs, demoVars, timeitVars, K, n, block_size, results, ret,
                   wval, wword, evald, writers>>

\* std::all_of is find_if_not(first, last, pred) == last: the scan stops
\* at the first element the predicate rejects
StopScanNever(ok) == FALSE

StopScan(ok) == ~ok

\* what applying the predicate to element p leaves in the sequence: data
\* is a const vector<int>& and the lambda takes its element by value
DataAfterEvalClobbers(d, p) == [d EXCEPT ![p] = 0]

DataAfterEval(d, p) == d

\* the worker's all_of over an empty range [start, start)
W_Empty(w) ==
    /\ wpc[w] = "scan"
    /\ wit[w] = wend[w]
    /\ wval' = [wval EXCEPT ![w] = TRUE]
    /\ wpc' = [wpc EXCEPT ![w] = "load"]
    /\ UNCHANGED <<inputs, demoVars, timeitVars, callerVars,
                   wstart, wend, wit, wword, evald, writers>>

\* one iteration of the worker's all_of: the predicate on data[it]
\* (data is 1-based here, the iterator 0-based), then stop or advance
W_Scan(w) ==
    /\ wpc[w] = "scan"
    /\ wit[w] # wend[w]
    /\ LET ok == Pred(data[wit[w] + 1], threshold)
           nxt == IF StopScan(ok) THEN wit[w] ELSE wit[w] + 1
           over == StopScan(ok) \/ nxt = wend[w]
       IN /\ evald' = [evald EXCEPT ![w] = Append(@, wit[w] + 1)]
          /\ wit' = [wit EXCEPT ![w] = nxt]
          /\ wval' = [wval EXCEPT ![w] = IF over THEN nxt = wend[w] ELSE @]
          /\ wpc' = [wpc EXCEPT ![w] = IF over THEN "load" ELSE "scan"]
          /\ data' = DataAfterEval(data, wit[w] + 1)
    /\ UNCHANGED <<threshold, K_values, repeatArg, demoVars, timeitVars,
                   callerVars, wstart, wend, wword, writers>>

\* results[i] = value, first half: the packed word is read
W_Load(w) ==
    /\ wpc[w] = "load"
    /\ wword' = [wword EXCEPT ![w] = LoadWord(results, w)]
    /\ wpc' = [wpc EXCEPT ![w] = "store"]
    /\ UNCHANGED <<inputs, demoVars, timeitVars, callerVars,
                   wstart, wend, wit, wval, evald, writers>>

\* results[i] = value, second half: the word, with bit i set or cleared,
\* is written back; the thread function returns
W_Store(w) ==
    /\ wpc[w] = "store"
    /\ results' = StoreWord(results, w, wword[w], wval[w])
    /\ writers' = [s \in DOMAIN writers |->
                       IF s \in WrittenSlots(results, w)
                       THEN writers[s] \cup {w} ELSE writers[s]]
    /\ wword' = [wword EXCEPT ![w] = NoFun]
    /\ wpc' = [wpc EXCEPT ![w] = "done"]
    /\ UNCHANGED <<inputs, demoVars, timeitVars, pc, K, n, block_size, i, j,
                   nthreads, ret, wstart, wend, wit, wval, evald>>

\* t.join() returns once thread t has finished
JoinNoWait(w) == TRUE

JoinReturns(w) == w \in DOMAIN wpc /\ wpc[w] = "done"

\* for (auto &t : threads): the test after the step to the next thread,
\* m being threads.size()
JoinLoopOneMore(next, m) == next <= m

JoinLoopContinues(next, m) == next < m

\* one iteration of: for (auto &t : threads) t.join();
P_Join ==
    /\ pc = "join"
    /\ JoinReturns(j)
    /\ j' = j + 1
    /\ pc' = IF JoinLoopContinues(j + 1, nthreads) THEN "join" ELSE "fold"
    /\ UNCHANGED <<inputs, demoVars, timeitVars, K, n, block_size, i, results,
                   nthreads, ret, workerVars>>

\* return all_of(results.begin(), results.end(), identity);
P_Fold ==
    /\ pc = "fold"
    /\ Return(FoldAll(results))
    /\ UNCHANGED <<inputs, dpc, ki, times, speedups, best_K, repeat, tlog, ms,
                   K, n, block_size, i, j, results, nthreads, workerVars>>

\* ------------------------------------------------ demo_parallel_custom
\* double / double.  Times are tick counts >= 0; the quotient is kept as
\* a reduced fraction, with the IEEE special values for a zero divisor.
FDiv(a, b) ==
    IF b = 0
    THEN (IF a = 0 THEN <<"nan">> ELSE <<"inf">>)
    ELSE <<"num", a \div GCD(a, b), b \div GCD(a, b)>>

One == <<"num", 1, 1>>

\* times[0], the baseline of the speedup column
BaselineLast(ts) == ts[Len(ts)]

Baseline(ts) == ts[1]

\* std::min_element: one pass keeping the position of the smallest value
\* seen, replaced only by a strictly smaller one
RECURSIVE MinScan(_, _, _, _)
MinScan(ts, p, best, orEqual) ==
    IF p > Len(ts) THEN best
    ELSE MinScan(ts, p + 1,
                 IF ts[p] < ts[best] \/ (orEqual /\ ts[p] = ts[best])
                 THEN p ELSE best,
                 orEqual)

MinElementLast(ts) == MinScan(ts, 2, 1, TRUE)

MinElement(ts) == MinScan(ts, 2, 1, FALSE)

\* for (int K : K_values) { ms = timeit([&]{ parallel_all_of(data, threshold, K); }) ...
D_Time ==
    /\ dpc = "loop"
    /\ K' = K_values[ki]
    /\ repeat' = repeatArg
    /\ tpc' = "start"
    /\ dpc' = "timing"
    /\ pc' = "idle"
    /\ n' = 0 /\ block_size' = 0 /\ i' = 0 /\ j' = 0
    /\ results' = NoFun /\ nthreads' = 0 /\ ret' = TRUE
    /\ wpc' = NoFun /\ wstart' = NoFun /\ wend' = NoFun /\ wit' = NoFun
    /\ wval' = NoFun /\ wword' = NoFun /\ evald' = NoFun /\ writers' = NoFun
    /\ UNCHANGED <<inputs, ki, times, speedups, best_K, retlog, tlog, ms>>

\* ... times.push_back(ms); }
D_Push ==
    /\ dpc = "timing"
    /\ tpc = "ret"
    /\ times' = Append(times, ms)
    /\ ki' = ki + 1
    /\ tpc' = "idle"
    /\ dpc' = IF ki + 1 <= Len(K_values) THEN "loop" ELSE "report"
    /\ UNCHANGED <<inputs, speedups, best_K, retlog, repeat, tlog, ms,
                   callerVars, workerVars>>

\* the table: speedup = times[0] / times[i] for every entry
D_Report ==
    /\ dpc = "report"
    /\ speedups' = [p \in 1..Len(K_values) |-> FDiv(Baseline(times), times[p])]
    /\ dpc' = "best"
    /\ UNCHANGED <<inputs, ki, times, best_K, retlog, timeitVars,
                   callerVars, workerVars>>

\* min_it = min_element(times); best_K = K_values[min_it - times.begin()];
D_Best ==
    /\ dpc = "best"
    /\ best_K' = K_values[MinElement(times)]
    /\ dpc' = "end"
    /\ UNCHANGED <<inputs, ki, times, speedups, retlog, timeitVars,
                   callerVars, workerVars>>

Next ==
    \/ D_Time \/ D_Push \/ D_Report \/ D_Best
    \/ T_Start \/ T_LoopCall \/ T_LoopExit \/ T_End
    \/ P_FastPath \/ P_Setup \/ P_Spawn \/ P_Join \/ P_Fold
    \/ \E w \in DOMAIN wpc : W_Empty(w)
    \/ \E w \in DOMAIN wpc : W_Scan(w)
    \/ \E w \in DOMAIN wpc : W_Load(w)
    \/ \E w \in DOMAIN wpc : W_Store(w)

Spec == Init /\ [][Next]_vars

\* =================================================================
\* Properties
\* =================================================================

\* the call of parallel_all_of under way, or the last one, took the
\* threaded path and has spawned all its workers
AllSpawned == pc \in {"join", "fold", "returned"} /\ nthreads > 0

Joined == pc \in {"fold", "returned"} /\ nthreads > 0

\* the 1-based positions of the half-open range [lo, hi), in order
RangeSeq(lo, hi) == [p \in 1..(hi - lo) |-> lo + p]

RECURSIVE SumLen(_, _)
SumLen(f, S) ==
    IF S = {} THEN 0
    ELSE LET w == CHOOSE x \in S : TRUE
         IN Len(f[w]) + SumLen(f, S \ {w})

\* the predicate evaluations of the call so far
TotalEvals == SumLen(evald, DOMAIN evald)

\* ---------------------------------------------------------------- C1
\* C1: a call with K >= 1 returns true exactly when the predicate holds
\* for every element of data, under every interleaving of the workers.
C1_EqualsSequential ==
    (pc = "returned" /\ K >= 1) => (ret = SeqAllOf(data, threshold))

\* ---------------------------------------------------------------- C2
\* ranges rs (a function from 0..k-1 to <<start, end>>) are contiguous,
\* start at 0, end at len, and every index of [0, len) lies in exactly
\* one of them (so no two of them overlap)
CoversExactly(rs, k, len) ==
    /\ rs[0][1] = 0
    /\ rs[k - 1][2] = len
    /\ \A w \in 0..(k - 2) : rs[w][2] = rs[w + 1][1]
    /\ \A x \in 0..(len - 1) :
          \E w \in 0..(k - 1) :
              /\ rs[w][1] <= x /\ x < rs[w][2]
              /\ \A v \in 0..(k - 1) :
                    (rs[v][1] <= x /\ x < rs[v][2]) => v = w

\* the ranges the partitioning arithmetic yields for length len and k parts
Ranges(len, k) ==
    [w \in 0..(k - 1) |->
        <<RangeStart(w, BlockSize(len, k)), RangeEnd(w, k, len, BlockSize(len, k))>>]

\* C2: for every length (0 included) and every K >= 1 the K ranges the
\* partitioning arithmetic yields are contiguous, pairwise disjoint and
\* cover [0, n) exactly (stated where a call is entered, over every K of
\* the bound); the ranges handed to the spawned workers are such ranges.
C2_PartitionCovers ==
    /\ pc = "entry" =>
          \A k \in 1..MaxK : CoversExactly(Ranges(Len(data), k), k, Len(data))
    /\ AllSpawned =>
          CoversExactly([w \in 0..(K - 1) |-> <<wstart[w], wend[w]>>], K, n)

\* a second call of the sweep has more workers than elements, after a
\* first call with at most as many workers as elements
C2_Witness ==
    /\ AllSpawned /\ K > n /\ ki = 2
    /\ K_values[1] >= 1 /\ K_values[1] <= n

\* ---------------------------------------------------------------- C3
\* C3: with K <= 0 or an empty sequence the call goes from its entry
\* straight to its return, returns true and creates no thread.
C3_FastPathNoThread ==
    (K <= 0 \/ Len(data) = 0) =>
        /\ pc \in {"idle", "entry", "returned"}
        /\ nthreads = 0
        /\ wpc = NoFun
        /\ pc = "returned" => ret = TRUE

\* K <= 0 on a sequence with an element the predicate rejects
C3_Witness ==
    /\ pc = "returned" /\ K <= 0 /\ ret = TRUE /\ nthreads = 0
    /\ ~SeqAllOf(data, threshold)

\* ---------------------------------------------------------------- C4
\* C4: the calling thread is at the fold, or has returned from a threaded
\* call, only when all K workers have been spawned and have terminated.
C4_FoldAfterJoin ==
    (pc = "fold" \/ (pc = "returned" /\ nthreads > 0)) =>
        /\ nthreads = K
        /\ DOMAIN wpc = 0..(K - 1)
        /\ \A w \in DOMAIN wpc : wpc[w] = "done"

\* the fold is about to read the slots of two or more finished workers
C4_Witness ==
    pc = "fold" /\ K >= 2 /\ \A w \in DOMAIN wpc : wpc[w] = "done"

\* ---------------------------------------------------------------- C5
\* C5: after the join every slot holds the partial result its worker
\* computed; no store is lost or overwritten by another worker's store.
C5_SlotsHoldPartials ==
    Joined => \A w \in DOMAIN results : results[w] = wval[w]

\* ---------------------------------------------------------------- C6
\* C6: for a fixed sequence and predicate, any two calls of the sweep
\* with worker counts K1, K2 >= 1 return the same boolean.
C6_GranularityIrrelevant ==
    \A a, b \in DOMAIN retlog :
        (K_values[a] >= 1 /\ K_values[b] >= 1) => retlog[a] = retlog[b]

\* ---------------------------------------------------------------- C7
\* C7: timeit takes the start timestamp, then calls the operation, never
\* more than repeat times, and when it returns it has called it exactly
\* repeat times, all of them before the end timestamp.
C7_ExactlyRepeatCalls ==
    /\ tpc \in {"loop", "call", "end"} =>
          /\ Len(tlog) <= 1 + repeatArg
          /\ tlog = <<"start">> \o [p \in 1..(Len(tlog) - 1) |-> "f"]
    /\ tpc = "end" => Len(tlog) = 1 + repeatArg
    /\ tpc = "ret" =>
          tlog = <<"start">> \o [p \in 1..repeatArg |-> "f"] \o <<"end">>

\* timeit has returned after a run of two or more calls
C7_Witness == tpc = "ret" /\ repeatArg >= 2 /\ Len(tlog) = repeatArg + 2

\* ---------------------------------------------------------------- C8
\* the position of worker count k in the sweep (the counts are distinct)
PosOf(k) == CHOOSE p \in 1..Len(K_values) : K_values[p] = k

\* C8: the best K reported is a K of the series whose time is the
\* minimum, and no earlier entry has that time.
C8_BestIsFirstArgmin ==
    dpc = "end" =>
        /\ \E p \in 1..Len(K_values) : K_values[p] = best_K
        /\ \A q \in 1..Len(times) : times[PosOf(best_K)] <= times[q]
        /\ \A q \in 1..(PosOf(best_K) - 1) : times[q] > times[PosOf(best_K)]

\* the minimum time is shared by two entries
C8_Witness ==
    /\ dpc = "end" /\ Len(times) >= 2
    /\ times[1] = times[2]
    /\ \A q \in 1..Len(times) : times[1] <= times[q]
    /\ best_K = K_values[1]

\* ---------------------------------------------------------------- C9
\* C9 as stated: the speedup of the first entry is exactly 1.0 whatever
\* the baseline time is.
C9_BaselineSpeedupIsOne ==
    dpc \in {"best", "end"} => speedups[1] = One

\* C9 amended: the speedup of the first entry is exactly 1.0 when the
\* baseline time is not zero, and the quotient 0/0, a NaN, when it is.
C9_BaselineSpeedupIsOneUnlessZero ==
    dpc \in {"best", "end"} =>
        /\ times[1] # 0 => speedups[1] = One
        /\ times[1] = 0 => speedups[1] = <<"nan">>

\* a table whose baseline time is not zero and differs from another time
C9_Witness ==
    /\ dpc = "end" /\ Len(times) >= 2
    /\ times[1] # 0 /\ times[2] # times[1]
    /\ speedups[1] = One

\* --------------------------------------------------------------- C10
\* the positions of [lo, hi) up to and including the first one whose
\* element the predicate rejects (all of them when there is none)
UpToFirstReject(lo, hi) ==
    LET bad == {p \in (lo + 1)..hi : ~Pred(data[p], threshold)}
    IN IF bad = {} THEN RangeSeq(lo, hi)
       ELSE RangeSeq(lo, CHOOSE p \in bad : \A q \in bad : p <= q)

\* C10 as stated: every worker that has finished scanning has applied the
\* predicate to every element of its range, and a call that has returned
\* has evaluated the predicate n times.
C10_FullScan ==
    /\ \A w \in DOMAIN wpc :
          wpc[w] \in {"load", "store", "done"} =>
              evald[w] = RangeSeq(wstart[w], wend[w])
    /\ (pc = "returned" /\ nthreads > 0) => TotalEvals = n

\* C10 amended: a worker applies the predicate to the elements of its
\* range in sequence order and stops after the first element that
\* violates it (scanning the whole range when none does), whatever the
\* other workers have found; the evaluations of a call number at most n,
\* and exactly n when no element violates the predicate.
C10_ScanToFirstReject ==
    /\ \A w \in DOMAIN wpc :
          /\ wpc[w] = "scan" =>
                /\ evald[w] = RangeSeq(wstart[w], wit[w])
                /\ \A p \in 1..Len(evald[w]) : Pred(data[evald[w][p]], threshold)
          /\ wpc[w] \in {"load", "store", "done"} =>
                evald[w] = UpToFirstReject(wstart[w], wend[w])
    /\ (pc = "returned" /\ nthreads > 0) =>
          /\ TotalEvals <= n
          /\ SeqAllOf(data, threshold) => TotalEvals = n

\* one worker stopped before the end of its range while another scanned
\* the whole of a non-empty range
C10_Witness ==
    /\ pc = "returned" /\ K >= 2
    /\ \E w, v \in DOMAIN wpc :
          /\ Len(evald[w]) < wend[w] - wstart[w]
          /\ Len(evald[v]) = wend[v] - wstart[v]
          /\ Len(evald[v]) > 0
\* --------------------------------------------------------------- C11
\* C11: in a threaded call, once the workers are joined, the storage of
\* result slot i has been written by worker i and by no other worker.
C11_SlotWrittenByOwnerOnly ==
    Joined => \A s \in DOMAIN writers : writers[s] = {s}

\* --------------------------------------------------------------- C12
\* C12: a call starts with no thread; while it spawns, it has created
\* exactly the workers 0..i-1; once spawning is over it has created
\* exactly K workers, worker w holding partition w of the partitioning;
\* and when it has returned every one of them has finished.
C12_ExactlyKFreshJoined ==
    /\ pc = "entry" => (nthreads = 0 /\ wpc = NoFun)
    /\ pc = "spawn" =>
          /\ nthreads = i /\ i < K
          /\ \A w \in DOMAIN wpc : (wpc[w] # "none") <=> (w < i)
    /\ AllSpawned =>
          /\ nthreads = K
          /\ DOMAIN wpc = 0..(K - 1)
          /\ \A w \in DOMAIN wpc :
                /\ wpc[w] # "none"
                /\ <<wstart[w], wend[w]>> = Ranges(n, K)[w]
    /\ (pc = "returned" /\ nthreads > 0) =>
          \A w \in DOMAIN wpc : wpc[w] = "done"

\* the second call of a timeit run has returned with its own two or
\* more workers, all finished
C12_Witness ==
    /\ pc = "returned" /\ K >= 2 /\ nthreads = K
    /\ repeatArg >= 2 /\ repeat = repeatArg - 2
    /\ \A w \in DOMAIN wpc : wpc[w] = "done"
\* --------------------------------------------------------------- C13
\* the steps of the thread that runs the demo, timeit and the calling
\* side of parallel_all_of
MainThread ==
    \/ D_Time \/ D_Push \/ D_Report \/ D_Best
    \/ T_Start \/ T_LoopCall \/ T_LoopExit \/ T_End
    \/ P_FastPath \/ P_Setup \/ P_Spawn \/ P_Join \/ P_Fold

\* the steps of worker thread w
Worker(w) ==
    /\ w \in DOMAIN wpc
    /\ (W_Empty(w) \/ W_Scan(w) \/ W_Load(w) \/ W_Store(w))

\* the runs that time a single worker count (every sequence, every
\* worker count and every repeat count of the bounds, one sweep entry)
FairInit == Init /\ Len(K_values) = 1

\* the scheduler lets every thread that can run take a step eventually
FairSpec ==
    /\ FairInit /\ [][Next]_vars
    /\ WF_vars(MainThread)
    /\ \A w \in 0..(MaxK - 1) : WF_vars(Worker(w))

\* C13: under fair scheduling every call of parallel_all_of that is
\* entered eventually returns.
C13_CallReturns == (pc = "entry") ~> (pc = "returned")

\* a threaded call has joined its two or more workers, one after the
\* other, and has returned to timeit
C13_Witness ==
    /\ pc = "returned" /\ tpc = "loop" /\ nthreads >= 2
    /\ j = nthreads
\* --------------------------------------------------------------- C14
\* the sizes of the k ranges rs are bs for every range but the last and
\* bs + len mod k for the last, the excess being at most k - 1
SizesAbsorbRemainder(rs, k, len, bs) ==
    /\ \A w \in 0..(k - 2) : rs[w][2] - rs[w][1] = bs
    /\ rs[k - 1][2] - rs[k - 1][1] = bs + (len % k)
    /\ len % k <= k - 1

\* C14: with block_size = n div K, partition i starts at i * block_size
\* and ends at (i+1) * block_size, the last one at n; every non-last
\* partition has block_size elements and the last has n mod K more, at
\* most K-1 (n = 7, K = 3 gives [0,2), [2,4), [4,7)).  Stated for the
\* ranges handed to the workers of a call and, where a call is entered,
\* for the arithmetic on every K of the bound (length 0 included).
C14_BlocksAndRemainder ==
    /\ pc = "entry" =>
          /\ Ranges(7, 3) = (0 :> <<0, 2>> @@ 1 :> <<2, 4>> @@ 2 :> <<4, 7>>)
          /\ \A k \in 1..MaxK :
                SizesAbsorbRemainder(Ranges(Len(data), k), k, Len(data),
                                     Len(data) \div k)
    /\ AllSpawned =>
          /\ block_size = n \div K
          /\ \A w \in 0..(K - 1) :
                /\ wstart[w] = w * block_size
                /\ wend[w] = IF w < K - 1 THEN (w + 1) * block_size ELSE n
          /\ SizesAbsorbRemainder([w \in 0..(K - 1) |-> <<wstart[w], wend[w]>>],
                                  K, n, n \div K)

\* a call whose last partition is larger than the others
C14_Witness ==
    /\ AllSpawned /\ K >= 2 /\ n % K # 0 /\ block_size >= 1
    /\ wend[K - 1] - wstart[K - 1] > wend[0] - wstart[0]
\* --------------------------------------------------------------- C15
\* a threaded call with more workers than elements
MoreWorkersThanElements == AllSpawned /\ K > n /\ n >= 1

EmptyPart(w) == wstart[w] = wend[w]

\* C15 as stated: with K > n >= 1 there are empty partitions, they are the
\* trailing ones (no empty partition precedes a non-empty one), and the
\* partial result of each is true.
C15_EmptyPartitionsTrail ==
    MoreWorkersThanElements =>
        /\ \E w \in 0..(K - 1) : EmptyPart(w)
        /\ \A w, v \in 0..(K - 1) : (w < v /\ EmptyPart(w)) => EmptyPart(v)
        /\ \A w \in 0..(K - 1) :
              (EmptyPart(w) /\ wpc[w] \in {"load", "store", "done"}) => wval[w]

\* C15 amended: with K > n >= 1 block_size is 0, the partitions 0..K-2
\* are all empty ([0,0)) and the last partition is [0,n), the only
\* non-empty one: the empty partitions are the leading ones.  The worker
\* of an empty partition evaluates nothing and its partial result is
\* true, and so is its slot after the join.
C15_EmptyPartitionsLead ==
    MoreWorkersThanElements =>
        /\ block_size = 0
        /\ \A w \in 0..(K - 2) : wstart[w] = 0 /\ wend[w] = 0
        /\ wstart[K - 1] = 0 /\ wend[K - 1] = n
        /\ \A w \in 0..(K - 2) :
              /\ evald[w] = <<>>
              /\ wpc[w] \in {"load", "store", "done"} => wval[w]
              /\ Joined => results[w]

\* the worker of an empty leading partition has finished with true while
\* the last partition holds every element
C15_Witness ==
    /\ MoreWorkersThanElements /\ pc = "fold"
    /\ EmptyPart(0) /\ wval[0] /\ results[0]
    /\ wend[K - 1] - wstart[K - 1] = n
\* --------------------------------------------------------------- C16
\* C16: no step of a call (nor of the harness around it) changes the
\* input sequence: its length and its elements stay what they were.
C16_DataNeverModified ==
    [][/\ Len(data') = Len(data)
       /\ \A p \in 1..Len(data) : data'[p] = data[p]]_vars

\* a threaded call has returned after its workers read every element
C16_Witness ==
    /\ pc = "returned" /\ nthreads >= 2 /\ n >= 2
    /\ TotalEvals = n
\* --------------------------------------------------------------- C17
\* C17: the range of every spawned worker satisfies
\* 0 <= start <= end <= n, its iterator stays within the range, and
\* every element it has read lies in its range, hence in [0, n)
\* (positions in evald are 1-based: position p is index p - 1).
C17_RangesInBounds ==
    \A w \in DOMAIN wpc :
        wpc[w] # "none" =>
            /\ 0 <= wstart[w] /\ wstart[w] <= wend[w] /\ wend[w] <= n
            /\ wstart[w] <= wit[w] /\ wit[w] <= wend[w]
            /\ \A q \in 1..Len(evald[w]) :
                  /\ 0 <= evald[w][q] - 1 /\ evald[w][q] - 1 < n
                  /\ wstart[w] <= evald[w][q] - 1 /\ evald[w][q] - 1 < wend[w]

\* block_size is 0 and the worker of the last partition has read an
\* element
C17_Witness ==
    /\ pc = "join" /\ K > n /\ block_size = 0
    /\ Len(evald[K - 1]) >= 1
    /\ wpc[0] # "none"
\* --------------------------------------------------------------- C18
\* the configuration of demo_parallel_custom: getRandomInts(n, 0, 100),
\* threshold 101, the sweep of worker counts, timeit's default repeat
DemoMin == 0
DemoMax == 100
DemoThreshold == 101
DemoRepeat == 1
DemoKValues == <<1, 2, 4, 8, 12, 16>>

\* the demo on a short sequence of extreme elements, with the worker
\* counts of the sweep up to MaxDemoK
DemoInit ==
    /\ data \in SeqsUpTo({DemoMin, DemoMax}, 0, MaxN)
    /\ threshold = DemoThreshold
    /\ K_values = SelectSeq(DemoKValues, LAMBDA k : k <= MaxDemoK)
    /\ repeatArg = DemoRepeat
    /\ dpc = "loop" /\ ki = 1 /\ times = <<>> /\ speedups = <<>>
    /\ best_K = 0 /\ retlog = <<>>
    /\ tpc = "idle" /\ repeat = 0 /\ tlog = <<>> /\ ms = 0
    /\ pc = "idle" /\ K = 0 /\ n = 0 /\ block_size = 0 /\ i = 0 /\ j = 0
    /\ results = NoFun /\ nthreads = 0 /\ ret = TRUE
    /\ wpc = NoFun /\ wstart = NoFun /\ wend = NoFun /\ wit = NoFun
    /\ wval = NoFun /\ wword = NoFun /\ evald = NoFun /\ writers = NoFun

DemoSpec == DemoInit /\ [][Next]_vars

\* C18: with elements in [0, 100] and threshold 101 the predicate holds
\* for every possible element, so every call of the demo returns true,
\* every worker scans its whole range and finds it true, and every slot
\* is true after the join.
C18_DemoAllTrue ==
    /\ pc = "entry" => \A x \in DemoMin..DemoMax : Pred(x, threshold)
    /\ pc = "returned" => ret
    /\ \A w \in DOMAIN wpc :
          wpc[w] \in {"load", "store", "done"} =>
              /\ wval[w]
              /\ evald[w] = RangeSeq(wstart[w], wend[w])
    /\ Joined => \A s \in DOMAIN results : results[s]

\* the call with four workers has returned true on a sequence holding
\* the largest element
C18_Witness ==
    /\ pc = "returned" /\ K = 4 /\ nthreads = 4 /\ ret
    /\ \E p \in 1..Len(data) : data[p] = DemoMax
====
